---- MODULE Spec2Model ----
(***************************************************************************)
(* Will.IAM permission core: the ownership lattice, the resource-hierarchy *)
(* matcher, the permission string codec, the IsPresent check and the       *)
(* transactional attribution workflow.                                     *)
(*                                                                         *)
(* Go strings are modelled as sequences of one-character strings, so that  *)
(* strings.Split and strings.Join act on characters as they do in Go.      *)
(***************************************************************************)
EXTENDS Integers, Sequences, FiniteSets, TLC

VARIABLES
    \* ResourceHierarchy calls (models/permission.go): the calls made so far,
    \* the receiver, the argument and the two results
    hpc, rh, orh, containsRet, matchesRet,
    \* Permission.IsPresent: position, the candidate, the held slice, the result
    ppc, p, permissions, isPresentRet,
    \* the permission codec: position, the input string and the results of
    \* ValidatePermission, BuildPermission and Permission.String
    cpc, str, validRet, buildRet, stringRet,
    \* attribution (usecases/permissions.go): position in the call, the
    \* operation, its inputs, the loop indices, the error the callback
    \* returned and the value the call returned
    pc, op, emails, targets, perms, pos, fnErr, callErr,
    \* the store: committed permissions, the open transaction and its writes
    committed, txOpen, txWrites,
    \* history of the current call: the store when it began, scopes opened
    \* and closed, how the scope was closed, the Creates issued
    storeBefore, opens, closes, closedBy, createLog

hierVars == <<hpc, rh, orh, containsRet, matchesRet>>
permVars == <<ppc, p, permissions, isPresentRet>>
codecVars == <<cpc, str, validRet, buildRet, stringRet>>
callVars == <<pc, op, emails, targets, perms, pos, fnErr, callErr>>
storeVars == <<committed, txOpen, txWrites>>
histVars == <<storeBefore, opens, closes, closedBy, createLog>>
attrVars == <<callVars, storeVars, histVars>>
vars == <<hierVars, permVars, codecVars, attrVars>>

---------------------------------------------------------------------------
(* Bounds *)

\* most segments of a generated resource hierarchy
MaxSegs == 3

\* most permissions in the held slice given to IsPresent
MaxHeld == 2

\* most "::"-joined pieces of a generated permission string
MaxPieces == 5

\* most targets (role ids or emails) of one attribution call
MaxTargets == 2

\* most permission templates of one attribution call
MaxPerms == 2

---------------------------------------------------------------------------
(* Go strings *)

Sep == <<":", ":">>
Star == <<"*">>

\* strings.Index(s, "::"), 1-based; 0 when the separator does not occur
IndexSep(s) ==
    LET hits == {i \in 1..(Len(s) - 1) : s[i] = ":" /\ s[i + 1] = ":"}
    IN  IF hits = {} THEN 0 ELSE CHOOSE i \in hits : \A k \in hits : i <= k

\* strings.Split(s, "::"): leftmost, non-overlapping separators
RECURSIVE Split(_)
Split(s) ==
    LET i == IndexSep(s)
    IN  IF i = 0 THEN <<s>>
        ELSE <<SubSeq(s, 1, i - 1)>> \o Split(SubSeq(s, i + 2, Len(s)))

\* strings.Join(parts, "::")
RECURSIVE Join(_)
Join(parts) ==
    IF Len(parts) = 0 THEN <<>>
    ELSE IF Len(parts) = 1 THEN parts[1]
    ELSE parts[1] \o Sep \o Join(Tail(parts))

---------------------------------------------------------------------------
(* OwnershipLevel *)

Owner == <<"R", "O">>
Lender == <<"R", "L">>

\* Less returns true if o < oo; Lender < Owner
Less(o, oo) ==
    IF o = Lender /\ oo = Owner THEN TRUE ELSE FALSE

---------------------------------------------------------------------------
(* ResourceHierarchy *)

buildResourceHierarchy(h) ==
    LET parts == Split(h)
    IN  [size |-> Len(parts), hierarchy |-> parts]

\* the body of the range loop of Contains; i is the 1-based loop index
RECURSIVE ContainsWalk(_, _, _)
ContainsWalk(rhh, orhh, i) ==
    IF i > Len(orhh.hierarchy) THEN TRUE
    ELSE IF i > Len(rhh.hierarchy) THEN FALSE
    ELSE IF rhh.hierarchy[i] = Star THEN TRUE
    ELSE IF orhh.hierarchy[i] # rhh.hierarchy[i] THEN FALSE
    ELSE ContainsWalk(rhh, orhh, i + 1)

\* mutant: the size guard of Contains is dropped
ContainsNoSizeGuard(h, o) ==
    ContainsWalk(buildResourceHierarchy(h), buildResourceHierarchy(o), 1)

\* mutant: a literal prefix is enough, the lengths need not agree
ContainsPrefix(h, o) ==
    LET rhh == buildResourceHierarchy(h)
        orhh == buildResourceHierarchy(o)
    IN  IF rhh.size > orhh.size THEN FALSE
        ELSE \A i \in 1..rhh.size :
                \/ rhh.hierarchy[i] = orhh.hierarchy[i]
                \/ \E k \in 1..i : rhh.hierarchy[k] = Star

Contains(h, o) ==
    LET rhh == buildResourceHierarchy(h)
        orhh == buildResourceHierarchy(o)
    IN  IF rhh.size > orhh.size THEN FALSE
        ELSE ContainsWalk(rhh, orhh, 1)

\* the for loop of PermissionMatches; i is the code's 0-based index
RECURSIVE MatchesLoop(_, _, _)
MatchesLoop(parts, i, ret) ==
    IF i >= Len(parts) THEN ret
    ELSE IF parts[i + 1] = Star THEN ret
    ELSE MatchesLoop(parts, i + 1,
                     Append(ret, Join(SubSeq(parts, 1, i)) \o Sep \o Star))

\* mutant: a wildcard segment is skipped instead of ending the loop
RECURSIVE MatchesLoopContinue(_, _, _)
MatchesLoopContinue(parts, i, ret) ==
    IF i >= Len(parts) THEN ret
    ELSE IF parts[i + 1] = Star THEN MatchesLoopContinue(parts, i + 1, ret)
    ELSE MatchesLoopContinue(parts, i + 1,
                     Append(ret, Join(SubSeq(parts, 1, i)) \o Sep \o Star))

PermissionMatchesContinue(h) ==
    IF h = Star THEN <<h>>
    ELSE Append(MatchesLoopContinue(Split(h), 1, <<Star>>), h)

PermissionMatches(h) ==
    LET whole == h
    IN  IF whole = Star THEN <<whole>>
        ELSE LET parts == Split(whole)
             IN  Append(MatchesLoop(parts, 1, <<Star>>), whole)

---------------------------------------------------------------------------
(* Permission *)

Nil == "nil"
ErrIncomplete ==
    "Incomplete permission. Expected format: Service::OwnershipLevel::Action::{ResourceHierarchy}"
ErrOwnershipLevel == "OwnershipLevel needs to be RO or RL"
ErrEmptyPart == "No parts can be empty"

\* the Permission struct; ID and Alias are read by none of the modelled code
MkPermission(service, ol, action, hierarchy) ==
    [RoleID |-> <<>>, Service |-> service, OwnershipLevel |-> ol,
     Action |-> action, ResourceHierarchy |-> hierarchy]

\* Permission{}
ZeroPermission == MkPermission(<<>>, <<>>, <<>>, <<>>)

\* mutant: only the four leading parts are checked for emptiness
ValidatePermissionLeading(s) ==
    LET parts == Split(s)
    IN  IF Len(parts) < 4 THEN [valid |-> FALSE, err |-> ErrIncomplete]
        ELSE IF parts[2] # Owner /\ parts[2] # Lender
             THEN [valid |-> FALSE, err |-> ErrOwnershipLevel]
        ELSE IF \E i \in 1..4 : parts[i] = <<>>
             THEN [valid |-> FALSE, err |-> ErrEmptyPart]
        ELSE [valid |-> TRUE, err |-> Nil]

ValidatePermission(s) ==
    LET parts == Split(s)
    IN  IF Len(parts) < 4 THEN [valid |-> FALSE, err |-> ErrIncomplete]
        ELSE LET ol == parts[2]
             IN  IF ol # Owner /\ ol # Lender
                 THEN [valid |-> FALSE, err |-> ErrOwnershipLevel]
                 ELSE IF \E i \in 1..Len(parts) : parts[i] = <<>>
                      THEN [valid |-> FALSE, err |-> ErrEmptyPart]
                      ELSE [valid |-> TRUE, err |-> Nil]

\* mutant: the hierarchy is the fourth part alone
BuildPermissionFourthPart(s) ==
    LET v == ValidatePermission(s)
        parts == Split(s)
    IN  IF ~v.valid THEN [perm |-> ZeroPermission, err |-> v.err]
        ELSE [perm |-> MkPermission(parts[1], parts[2], parts[3], parts[4]),
              err |-> Nil]

BuildPermission(s) ==
    LET v == ValidatePermission(s)
    IN  IF ~v.valid THEN [perm |-> ZeroPermission, err |-> v.err]
        ELSE LET parts == Split(s)
                 service == parts[1]
                 ol == parts[2]
                 action == parts[3]
                 hierarchy == Join(SubSeq(parts, 4, Len(parts)))
             IN  [perm |-> MkPermission(service, ol, action, hierarchy),
                  err |-> Nil]

\* fmt.Sprintf("%s::%s::%s::%s", ...)
String(perm) ==
    perm.Service \o Sep \o perm.OwnershipLevel \o Sep \o perm.Action
        \o Sep \o perm.ResourceHierarchy

\* the range loop of IsPresent; i is the 1-based loop index
RECURSIVE IsPresentLoop(_, _, _)
IsPresentLoop(cand, held, i) ==
    IF i > Len(held) THEN FALSE
    ELSE LET pp == held[i]
         IN  IF \/ (pp.Service # Star /\ pp.Service # cand.Service)
                \/ (pp.Action # Star /\ pp.Action # cand.Action)
                \/ Less(pp.OwnershipLevel, cand.OwnershipLevel)
             THEN IsPresentLoop(cand, held, i + 1)
             ELSE IF Contains(pp.ResourceHierarchy, cand.ResourceHierarchy)
                  THEN TRUE
                  ELSE IsPresentLoop(cand, held, i + 1)

\* mutant: each condition may be met by a different held permission
IsPresentAggregated(cand, held) ==
    /\ \E i \in 1..Len(held) :
          /\ held[i].Service = Star \/ held[i].Service = cand.Service
          /\ held[i].Action = Star \/ held[i].Action = cand.Action
          /\ Contains(held[i].ResourceHierarchy, cand.ResourceHierarchy)
    /\ \E i \in 1..Len(held) :
          ~Less(held[i].OwnershipLevel, cand.OwnershipLevel)

IsPresent(cand, held) == IsPresentLoop(cand, held, 1)

---------------------------------------------------------------------------
(* The values of the variables a specification does not exercise *)

HierOff ==
    /\ hpc = {}
    /\ rh = Star
    /\ orh = Star
    /\ containsRet = FALSE
    /\ matchesRet = <<>>

PermOff ==
    /\ ppc = "off"
    /\ p = ZeroPermission
    /\ permissions = <<>>
    /\ isPresentRet = FALSE

CodecOff ==
    /\ cpc = "off"
    /\ str = <<>>
    /\ validRet = [valid |-> FALSE, err |-> Nil]
    /\ buildRet = [perm |-> ZeroPermission, err |-> Nil]
    /\ stringRet = <<>>

AttrOff ==
    /\ pc = "off"
    /\ op = "none"
    /\ emails = <<>>
    /\ targets = <<>>
    /\ perms = <<>>
    /\ pos = <<1, 1>>
    /\ fnErr = Nil
    /\ callErr = Nil
    /\ committed = <<>>
    /\ txOpen = FALSE
    /\ txWrites = <<>>
    /\ storeBefore = <<>>
    /\ opens = 0
    /\ closes = 0
    /\ closedBy = "none"
    /\ createLog = <<>>

---------------------------------------------------------------------------
(* Inputs of IsPresent *)

Services == {Star, <<"s">>}
Actions == {Star, <<"x">>}
HeldHierarchies == {Star, Join(<<(<<"a">>), Star>>), Join(<<(<<"a">>), (<<"b">>)>>)}

Permissions ==
    {MkPermission(sv, ol, ac, hi) :
        sv \in Services, ol \in {Owner, Lender}, ac \in Actions,
        hi \in HeldHierarchies}

PermInit ==
    /\ ppc = "load"
    /\ p \in Permissions
    /\ permissions = <<>>
    /\ isPresentRet = FALSE
    /\ HierOff
    /\ CodecOff
    /\ AttrOff

\* one more permission of the role is loaded into the held slice
LoadPermission ==
    /\ ppc = "load"
    /\ Len(permissions) < MaxHeld
    /\ \E pp \in Permissions : permissions' = Append(permissions, pp)
    /\ UNCHANGED <<ppc, p, isPresentRet, hierVars, codecVars, attrVars>>

\* p.IsPresent(permissions)
IsPresentCall ==
    /\ ppc = "load"
    /\ isPresentRet' = IsPresent(p, permissions)
    /\ ppc' = "done"
    /\ UNCHANGED <<p, permissions, hierVars, codecVars, attrVars>>

PermNext == LoadPermission \/ IsPresentCall

SpecIsPresent == PermInit /\ [][PermNext]_vars

---------------------------------------------------------------------------
(* Inputs of the codec *)

Pieces == {<<>>, <<"s">>, Owner, Lender, <<":">>}

PieceLists == UNION {[1..n -> Pieces] : n \in 1..MaxPieces}

Strings == {Join(pl) : pl \in PieceLists}

CodecInit ==
    /\ cpc = "validate"
    /\ str \in Strings
    /\ validRet = [valid |-> FALSE, err |-> Nil]
    /\ buildRet = [perm |-> ZeroPermission, err |-> Nil]
    /\ stringRet = <<>>
    /\ HierOff
    /\ PermOff
    /\ AttrOff

\* ValidatePermission(str)
ValidatePermissionCall ==
    /\ cpc = "validate"
    /\ validRet' = ValidatePermission(str)
    /\ cpc' = "build"
    /\ UNCHANGED <<str, buildRet, stringRet, hierVars, permVars, attrVars>>

\* BuildPermission(str)
BuildPermissionCall ==
    /\ cpc = "build"
    /\ buildRet' = BuildPermission(str)
    /\ cpc' = IF buildRet'.err = Nil THEN "string" ELSE "done"
    /\ UNCHANGED <<str, validRet, stringRet, hierVars, permVars, attrVars>>

\* String() of the permission BuildPermission returned
StringCall ==
    /\ cpc = "string"
    /\ stringRet' = String(buildRet.perm)
    /\ cpc' = "done"
    /\ UNCHANGED <<str, validRet, buildRet, hierVars, permVars, attrVars>>

CodecNext == ValidatePermissionCall \/ BuildPermissionCall \/ StringCall

SpecCodec == CodecInit /\ [][CodecNext]_vars

---------------------------------------------------------------------------
(* Inputs of the hierarchy calls *)

Segments == {<<"a">>, <<"b">>, Star}

SegLists == UNION {[1..n -> Segments] : n \in 1..MaxSegs}

Hierarchies == {Join(sl) : sl \in SegLists}

HierInit ==
    /\ hpc = {}
    /\ rh \in Hierarchies
    /\ orh \in Hierarchies
    /\ containsRet = FALSE
    /\ matchesRet = <<>>
    /\ PermOff
    /\ CodecOff
    /\ AttrOff

\* rh.Contains(orh)
ContainsCall ==
    /\ "Contains" \notin hpc
    /\ containsRet' = Contains(rh, orh)
    /\ hpc' = hpc \cup {"Contains"}
    /\ UNCHANGED <<rh, orh, matchesRet, permVars, codecVars, attrVars>>

\* orh.PermissionMatches()
PermissionMatchesCall ==
    /\ "PermissionMatches" \notin hpc
    /\ matchesRet' = PermissionMatches(orh)
    /\ hpc' = hpc \cup {"PermissionMatches"}
    /\ UNCHANGED <<rh, orh, containsRet, permVars, codecVars, attrVars>>

HierNext == ContainsCall \/ PermissionMatchesCall

SpecHierarchy == HierInit /\ [][HierNext]_vars

---------------------------------------------------------------------------
(* Attribution: usecases/permissions.go and its store *)

\* errors a store call may return
StoreErrors == {"pg: connection lost", "pg: constraint violated"}

ErrNotFound(email) == "Service Account not found for email " \o email

\* the service_accounts table: email -> base_role_id
Accounts == [e \in {"a@x.com", "b@x.com"} |->
                IF e = "a@x.com" THEN "role-a" ELSE "role-b"]

KnownEmails == DOMAIN Accounts
Emails == KnownEmails \cup {"nobody@x.com"}
RoleIDs == {"role-a", "role-b"}

\* ServiceAccounts.ForEmail: the account of an email, or an error when the
\* query fails or finds no row
ForEmail(email, queryErr) ==
    IF queryErr # Nil THEN [sa |-> "", err |-> queryErr]
    ELSE IF email \notin KnownEmails
         THEN [sa |-> "", err |-> ErrNotFound(email)]
         ELSE [sa |-> Accounts[email], err |-> Nil]

\* ServiceAccounts.ForEmails: the accounts of the emails in order, failing
\* as a whole with the first email that does not resolve
RECURSIVE ForEmails(_, _)
ForEmails(es, queryErr) ==
    IF es = <<>> THEN [sas |-> <<>>, err |-> queryErr]
    ELSE LET first == ForEmail(es[1], queryErr)
             rest == ForEmails(Tail(es), queryErr)
         IN  IF first.err # Nil THEN [sas |-> <<>>, err |-> first.err]
             ELSE IF rest.err # Nil THEN [sas |-> <<>>, err |-> rest.err]
             ELSE [sas |-> <<first.sa>> \o rest.sas, err |-> Nil]

\* mutant: the error of ForEmails is dropped and the call goes on
AttributeToEmailsEntryIgnoreErr(fe) ==
    [proceed |-> TRUE, ret |-> Nil]

\* AttributeToEmails, up to WithPGTx: a resolution error is returned at once
AttributeToEmailsEntry(fe) ==
    IF fe.err # Nil THEN [proceed |-> FALSE, ret |-> fe.err]
    ELSE [proceed |-> TRUE, ret |-> Nil]

\* the loops' current (target, permission) indices from (i, j) on; the end
\* of the outer loop is <<0, 0>>
LoopEnd == <<0, 0>>

RECURSIVE LoopFrom(_, _, _, _)
LoopFrom(ts, ps, i, j) ==
    IF i > Len(ts) THEN LoopEnd
    ELSE IF j > Len(ps) THEN LoopFrom(ts, ps, i + 1, 1)
    ELSE <<i, j>>

\* the loop variable: a copy of the template with RoleID set
LoopPermission(ts, ps, at) == [ps[at[2]] EXCEPT !.RoleID = ts[at[1]]]

\* mutant: a failed Create is skipped and the loop goes on
AttributeStepSkipFailed(createErr) ==
    [stop |-> FALSE, err |-> Nil]

\* mutant: a failed Create ends the callback without an error
AttributeStepReturnNil(createErr) ==
    IF createErr # Nil THEN [stop |-> TRUE, err |-> Nil]
    ELSE [stop |-> FALSE, err |-> Nil]

\* the loop body after Create: `if err != nil { return err }`
AttributeStep(createErr) ==
    IF createErr # Nil THEN [stop |-> TRUE, err |-> createErr]
    ELSE [stop |-> FALSE, err |-> Nil]

TargetSeqs == UNION {[1..n -> RoleIDs] : n \in 0..MaxTargets}
EmailSeqs == UNION {[1..n -> Emails] : n \in 0..MaxTargets}

Templates ==
    {MkPermission(<<"s">>, Owner, <<"x">>, Join(<<(<<"a">>), Star>>)),
     MkPermission(<<"s">>, Lender, Star, Join(<<(<<"a">>), (<<"b">>)>>))}

PermSeqs == UNION {[1..n -> Templates] : n \in 0..MaxPerms}

\* the committed store when the call arrives: empty, or holding a
\* permission an earlier attribution wrote
InitialStores ==
    {<<>>,
     <<[MkPermission(<<"s">>, Lender, <<"x">>, Star)
            EXCEPT !.RoleID = "role-b"]>>}

AttrInit ==
    /\ pc = "idle"
    /\ op = "none"
    /\ emails = <<>>
    /\ targets = <<>>
    /\ perms = <<>>
    /\ pos = <<1, 1>>
    /\ fnErr = Nil
    /\ callErr = Nil
    /\ committed \in InitialStores
    /\ txOpen = FALSE
    /\ txWrites = <<>>
    /\ storeBefore = committed
    /\ opens = 0
    /\ closes = 0
    /\ closedBy = "none"
    /\ createLog = <<>>
    /\ HierOff
    /\ PermOff
    /\ CodecOff

\* Attribute(pa) is entered
AttributeCall ==
    /\ pc = "idle"
    /\ \E rs \in TargetSeqs, ps \in PermSeqs :
          /\ targets' = rs
          /\ perms' = ps
    /\ op' = "Attribute"
    /\ emails' = <<>>
    /\ pc' = "begin"
    /\ storeBefore' = committed
    /\ UNCHANGED <<pos, fnErr, callErr, storeVars, opens, closes, closedBy,
                   createLog, hierVars, permVars, codecVars>>

\* AttributeToEmails(pa) is entered: ForEmails, then the error check
AttributeToEmailsCall ==
    /\ pc = "idle"
    /\ \E es \in EmailSeqs, ps \in PermSeqs, queryErr \in {Nil} \cup StoreErrors :
          LET fe == ForEmails(es, queryErr)
              entry == AttributeToEmailsEntry(fe)
          IN  /\ emails' = es
              /\ perms' = ps
              /\ targets' = fe.sas
              /\ pc' = IF entry.proceed THEN "begin" ELSE "done"
              /\ callErr' = entry.ret
    /\ op' = "AttributeToEmails"
    /\ storeBefore' = committed
    /\ UNCHANGED <<pos, fnErr, storeVars, opens, closes, closedBy,
                   createLog, hierVars, permVars, codecVars>>

\* WithPGTx opens the transaction and calls the callback
TxBegin ==
    /\ pc = "begin"
    /\ txOpen' = TRUE
    /\ txWrites' = <<>>
    /\ opens' = opens + 1
    /\ pos' = LoopFrom(targets, perms, 1, 1)
    /\ pc' = "work"
    /\ UNCHANGED <<op, emails, targets, perms, fnErr, callErr, committed,
                   storeBefore, closes, closedBy, createLog,
                   hierVars, permVars, codecVars>>

\* one iteration of the inner loop: repo.Permissions.Create(&permission)
\* succeeds or fails with a store error
CreateStep ==
    /\ pc = "work"
    /\ pos # LoopEnd
    /\ \E createErr \in {Nil} \cup StoreErrors :
          LET permission == LoopPermission(targets, perms, pos)
              step == AttributeStep(createErr)
          IN  /\ createLog' = Append(createLog,
                     [permission |-> permission, err |-> createErr,
                      inTx |-> txOpen])
              /\ txWrites' = IF createErr = Nil
                             THEN Append(txWrites, permission)
                             ELSE txWrites
              /\ IF step.stop
                 THEN /\ fnErr' = step.err
                      /\ pc' = "close"
                      /\ pos' = pos
                 ELSE /\ fnErr' = fnErr
                      /\ pc' = "work"
                      /\ pos' = LoopFrom(targets, perms, pos[1], pos[2] + 1)
    /\ UNCHANGED <<op, emails, targets, perms, callErr, committed, txOpen,
                   storeBefore, opens, closes, closedBy,
                   hierVars, permVars, codecVars>>

\* the loops are over: the callback returns nil
CallbackReturnNil ==
    /\ pc = "work"
    /\ pos = LoopEnd
    /\ fnErr' = Nil
    /\ pc' = "close"
    /\ UNCHANGED <<op, emails, targets, perms, pos, callErr, storeVars,
                   histVars, hierVars, permVars, codecVars>>

\* WithPGTx commits after a nil callback result and returns nil
TxCommit ==
    /\ pc = "close"
    /\ fnErr = Nil
    /\ committed' = committed \o txWrites
    /\ txWrites' = <<>>
    /\ txOpen' = FALSE
    /\ closes' = closes + 1
    /\ closedBy' = "commit"
    /\ callErr' = Nil
    /\ pc' = "done"
    /\ UNCHANGED <<op, emails, targets, perms, pos, fnErr, storeBefore,
                   opens, createLog, hierVars, permVars, codecVars>>

\* WithPGTx rolls back after a callback error and returns that error
TxRollback ==
    /\ pc = "close"
    /\ fnErr # Nil
    /\ txWrites' = <<>>
    /\ txOpen' = FALSE
    /\ closes' = closes + 1
    /\ closedBy' = "rollback"
    /\ callErr' = fnErr
    /\ pc' = "done"
    /\ UNCHANGED <<op, emails, targets, perms, pos, fnErr, committed,
                   storeBefore, opens, createLog,
                   hierVars, permVars, codecVars>>

AttrNext ==
    \/ AttributeCall
    \/ AttributeToEmailsCall
    \/ TxBegin
    \/ CreateStep
    \/ CallbackReturnNil
    \/ TxCommit
    \/ TxRollback

SpecAttribute == AttrInit /\ [][AttrNext]_vars

---------------------------------------------------------------------------
(* Claims about ResourceHierarchy *)

HasStar(segs) == \E i \in 1..Len(segs) : segs[i] = Star

FirstStar(segs) ==
    CHOOSE i \in 1..Len(segs) :
        segs[i] = Star /\ \A k \in 1..(i - 1) : segs[k] # Star

StarOnlyLast(segs) == \A i \in 1..(Len(segs) - 1) : segs[i] # Star

\* what C4 states for a receiver s whose only wildcard, if any, is its last
\* segment, and an argument o
C4_Expected(s, o) ==
    LET ss == Split(s)
        os == Split(o)
        n == Len(ss)
    IN  IF ss[n] # Star
        THEN os = ss
        ELSE /\ Len(os) >= n
             /\ SubSeq(os, 1, n - 1) = SubSeq(ss, 1, n - 1)

\* C4: for a receiver with "*" at most as its last segment, Contains is
\* equality of the segment sequences when there is no wildcard, and "the
\* argument extends the literal prefix by at least one segment, at any
\* depth" when the receiver is p::*; "*" alone contains every hierarchy.
C4_ContainsCanonical ==
    ("Contains" \in hpc /\ StarOnlyLast(Split(rh))) =>
        /\ containsRet = C4_Expected(rh, orh)
        /\ (rh = Star => containsRet)
        /\ (rh = orh /\ ~HasStar(Split(rh)) => containsRet)

\* a::* contains a hierarchy two or more segments deeper than its prefix
C4_Witness ==
    /\ "Contains" \in hpc
    /\ StarOnlyLast(Split(rh))
    /\ HasStar(Split(rh))
    /\ Len(Split(rh)) = 2
    /\ Len(Split(orh)) = 3
    /\ containsRet

\* what C5 states for a hierarchy h
C5_Expected(h) ==
    LET s == Split(h)
        n == Len(s)
        stops == {i \in 1..(n - 1) : s[i + 1] = Star}
        k == IF stops = {} THEN n
             ELSE CHOOSE i \in stops : \A j \in stops : i <= j
    IN  IF h = Star THEN <<Star>>
        ELSE <<Star>>
             \o [i \in 1..(k - 1) |-> Join(SubSeq(s, 1, i)) \o Sep \o Star]
             \o <<h>>

\* C5: PermissionMatches is "*", then prefix::* for the first 1, 2, ...
\* segments up to the first wildcard segment at index >= 1, then the
\* hierarchy itself; exactly ["*"] for the hierarchy "*".
C5_PermissionMatchesShape ==
    "PermissionMatches" \in hpc => matchesRet = C5_Expected(orh)

\* x::y::z gives four entries
C5_Witness ==
    /\ "PermissionMatches" \in hpc
    /\ ~HasStar(Split(orh))
    /\ Len(Split(orh)) = 3
    /\ Len(matchesRet) = 4

InMatches(h) == \E i \in 1..Len(matchesRet) : matchesRet[i] = h

\* C6: a stored hierarchy contains the candidate exactly when it is one of
\* the candidate's PermissionMatches.
C6_MatchSurface ==
    hpc = {"Contains", "PermissionMatches"} =>
        (containsRet <=> InMatches(rh))

\* the receiver cut off right after its first wildcard segment
CutAfterStar(h) ==
    LET segs == Split(h)
    IN  Join(SubSeq(segs, 1, FirstStar(segs)))

\* C10 as stated: segments after the first "*" of the receiver never change
\* the result of Contains.
C10_SegmentsAfterStarIgnored ==
    ("Contains" \in hpc /\ HasStar(Split(rh))) =>
        containsRet = Contains(CutAfterStar(rh), orh)

\* C10 amended: segments after the first "*" of the receiver do not change
\* the result when the argument has at least as many segments as the
\* receiver; when it has fewer, Contains is false.
C10_SegmentsAfterStarAmended ==
    ("Contains" \in hpc /\ HasStar(Split(rh))) =>
        containsRet = (/\ Len(Split(orh)) >= Len(Split(rh))
                       /\ Contains(CutAfterStar(rh), orh))

\* a receiver with segments after its wildcard contains an argument that is
\* as long as it
C10_Witness ==
    /\ "Contains" \in hpc
    /\ HasStar(Split(rh))
    /\ FirstStar(Split(rh)) < Len(Split(rh))
    /\ Len(Split(orh)) >= Len(Split(rh))
    /\ containsRet

---------------------------------------------------------------------------
(* Claims about Permission.IsPresent *)

\* the three conditions of IsPresent that do not involve the ownership level
C1_Covers(h, cand) ==
    /\ h.Service = Star \/ h.Service = cand.Service
    /\ h.Action = Star \/ h.Action = cand.Action
    /\ Contains(h.ResourceHierarchy, cand.ResourceHierarchy)

\* C1: IsPresent is true exactly when one held permission meets all four
\* conditions at once (service, action, ownership level not less than the
\* candidate's, hierarchy containment); a held Lender grant never satisfies
\* a candidate that requires Owner.
C1_IsPresentSingleGrant ==
    ppc = "done" =>
        /\ isPresentRet <=>
              \E i \in 1..Len(permissions) :
                  /\ C1_Covers(permissions[i], p)
                  /\ ~Less(permissions[i].OwnershipLevel, p.OwnershipLevel)
        /\ (isPresentRet /\ p.OwnershipLevel = Owner) =>
              \E i \in 1..Len(permissions) :
                  /\ C1_Covers(permissions[i], p)
                  /\ permissions[i].OwnershipLevel = Owner

\* the four conditions are met, but only by two different held permissions:
\* one covers the candidate as Lender, the other is Owner and does not cover
C1_Witness ==
    /\ ppc = "done"
    /\ p.OwnershipLevel = Owner
    /\ Len(permissions) = 2
    /\ \E i, j \in 1..Len(permissions) :
          /\ C1_Covers(permissions[i], p)
          /\ permissions[i].OwnershipLevel = Lender
          /\ permissions[j].OwnershipLevel = Owner
          /\ ~C1_Covers(permissions[j], p)
    /\ ~isPresentRet

---------------------------------------------------------------------------
(* Claims about the permission codec *)

C8_Accepted(s) ==
    LET parts == Split(s)
    IN  /\ Len(parts) >= 4
        /\ parts[2] \in {Owner, Lender}
        /\ \A i \in 1..Len(parts) : parts[i] # <<>>

---------------------------------------------------------------------------
(* Claims about attribution *)

\* the (target, template) index pairs of the current call
C2_Pairs == (1..Len(targets)) \X (1..Len(perms))

C2_Grant(pr) == [perms[pr[2]] EXCEPT !.RoleID = targets[pr[1]]]

\* what the current call added to the committed store
C2_Added == SubSeq(committed, Len(storeBefore) + 1, Len(committed))

\* C2: when a call returns, the committed store is the store before the
\* call plus one permission for every (target, template) pair if it
\* returned nil, and exactly the store before the call if it returned an
\* error; while the call runs the committed store is the store before it.
C2_AllOrNothing ==
    /\ pc \in {"idle", "begin", "work", "close"} => committed = storeBefore
    /\ (pc = "done" /\ callErr # Nil) => committed = storeBefore
    /\ (pc = "done" /\ callErr = Nil) =>
          /\ Len(committed) = Len(storeBefore) + Cardinality(C2_Pairs)
          /\ SubSeq(committed, 1, Len(storeBefore)) = storeBefore
          /\ \A r \in {C2_Grant(pr) : pr \in C2_Pairs} :
                Cardinality({k \in 1..Len(C2_Added) : C2_Added[k] = r})
                    = Cardinality({pr \in C2_Pairs : C2_Grant(pr) = r})

\* a call over a non-empty store failed after a Create had succeeded, and
\* the store is as it was
C2_Witness ==
    /\ pc = "done"
    /\ callErr # Nil
    /\ storeBefore # <<>>
    /\ Len(createLog) >= 2
    /\ createLog[1].err = Nil
    /\ committed = storeBefore

C3_Unresolved ==
    /\ op = "AttributeToEmails"
    /\ \E k \in 1..Len(emails) : emails[k] \notin KnownEmails

\* C3: AttributeToEmails with an email that has no service account returns
\* an error, opens no transaction, issues no Create and leaves the store
\* unchanged.
C3_NoWriteOnUnresolvedEmail ==
    C3_Unresolved =>
        /\ pc = "done"
        /\ callErr # Nil
        /\ opens = 0
        /\ ~txOpen
        /\ createLog = <<>>
        /\ txWrites = <<>>
        /\ committed = storeBefore

\* one email resolves, another does not, and there is something to write
C3_Witness ==
    /\ C3_Unresolved
    /\ \E k \in 1..Len(emails) : emails[k] \in KnownEmails
    /\ perms # <<>>
    /\ pc = "done"
    /\ callErr = ErrNotFound("nobody@x.com")

C9_Row(t) == [j \in 1..Len(perms) |-> [perms[j] EXCEPT !.RoleID = t]]

\* the Creates of a call that never fails: target by target, and template
\* by template for each target
RECURSIVE C9_Order(_)
C9_Order(ts) ==
    IF ts = <<>> THEN <<>> ELSE C9_Row(ts[1]) \o C9_Order(Tail(ts))

\* C9: in one call the scope is opened at most once, the Creates are issued
\* inside it in target-major order, no Create follows a failed one, a
\* failure closes the scope once by rollback and the call returns that
\* error, no failure closes it once by commit and the call returns nil; the
\* scope is never left open and never closed twice.
C9_TxProtocol ==
    LET n == Len(createLog)
        order == C9_Order(targets)
    IN  /\ opens <= 1
        /\ closes <= opens
        /\ txOpen <=> (opens = 1 /\ closes = 0)
        /\ pc \in {"work", "close"} => txOpen
        /\ pc \in {"idle", "begin", "done"} => ~txOpen
        /\ n <= Len(order)
        /\ \A k \in 1..n :
              /\ createLog[k].permission = order[k]
              /\ createLog[k].inTx
              /\ k < n => createLog[k].err = Nil
        /\ (pc = "done" /\ opens = 1) =>
              /\ closes = 1
              /\ IF n > 0 /\ createLog[n].err # Nil
                 THEN closedBy = "rollback" /\ callErr = createLog[n].err
                 ELSE closedBy = "commit" /\ callErr = Nil /\ n = Len(order)
        /\ (pc = "done" /\ opens = 0) =>
              /\ closedBy = "none"
              /\ n = 0
              /\ op = "AttributeToEmails"
              /\ callErr # Nil

\* a Create failed part-way through the cross-product: the later ones were
\* not issued, and the scope was closed by rollback with that error returned
C9_Witness ==
    /\ pc = "done"
    /\ closedBy = "rollback"
    /\ opens = 1
    /\ closes = 1
    /\ Len(createLog) >= 2
    /\ Len(createLog) < Len(C9_Order(targets))
    /\ callErr = createLog[Len(createLog)].err
    /\ callErr \in StoreErrors

====
